---- MODULE Spec2Model ----
(***************************************************************************)
(* Order tracing for NIRISS (eureka/S3_data_reduction/niriss.py):          *)
(* rm_outliers, find_centers, clean_and_fit, f277_mask, mask_method_one    *)
(* and mask_method_two.                                                    *)
(*                                                                         *)
(* Arrays are 1-based sequences here; numpy index i is position i+1.       *)
(* Means and standard deviations are compared in exact arithmetic          *)
(* (cross-multiplied integers), which is what the float comparison         *)
(* computes whenever it is not within rounding of equality.                *)
(***************************************************************************)
EXTENDS Integers, Sequences, FiniteSets

VARIABLES
    arr,        \* rm_outliers study: the center array (mutated in place)
    prev,       \* the array as it was before the last pass
    passes,     \* number of rm_outliers passes applied so far
    fc_img,     \* find_centers study: the image handed to find_centers
    fc_cut,     \* its cutends argument (None or a column)
    fc_raw,     \* centers before rm_outliers (niriss.py:207-211)
    fc_clean,   \* centers after rm_outliers (niriss.py:213)
    fc_out,     \* the array find_centers returns
    fc_done,    \* whether find_centers has run
    pc,         \* tracing: the position in mask_method_one / mask_method_two
    strategy,   \* "A": mask_method_one, "B": mask_method_two
    edge,       \* the edge mask image_filtering returns for the F277W crop
    g,          \* the smoothed image simplify_niriss_img returns
    sci,        \* new_ccd_no_premask: the summed, cosmic-ray-cleaned frame
    cal,        \* summed_f277
    new_mask,   \* f277_mask: the reconstructed mask
    mid,        \* f277_mask: one (x, y) row per column of the crop
    anchors,    \* f277_mask: mid[q], the anchors returned
    g_centers, f_centers, gcenters_1, gcenters_2,   \* mask_method_one
    f277_peaks, xf, peaks, ind, avg,                \* mask_method_two
    fits,       \* the point sets handed to np.polyfit so far, in order
    tab         \* the table returned (<< >> until then)

rmVars == <<arr, prev, passes>>
fcVars == <<fc_img, fc_cut, fc_raw, fc_clean, fc_out, fc_done>>
inVars == <<edge, g, sci, cal>>
fVars == <<new_mask, mid, anchors>>
aVars == <<g_centers, f_centers, gcenters_1, gcenters_2>>
bVars == <<f277_peaks, xf, peaks, ind, avg>>
trVars == <<pc, strategy, inVars, fVars, aVars, bVars, fits, tab>>
vars == <<rmVars, fcVars, trVars>>

\* Python's None for cutends, which is otherwise a column index >= 0
None == -1

(***************************************************************************)
(* Bounds of the model.                                                    *)
(***************************************************************************)
MaxLen == 5         \* longest center array of the rm_outliers study
MaxCenter == 3      \* largest center value of the rm_outliers study
MaxPasses == 2      \* passes of rm_outliers applied in a row
FcCols == 3         \* widest image of the find_centers study
FcRows == 3         \* rows of the images of the find_centers study
NCols == 1803       \* columns of the science and F277W frames
NRows == 256        \* rows of the science and F277W frames
EdgeRows == 5       \* rows that may hold an edge in the f277_mask study

(***************************************************************************)
(* Arithmetic helpers.                                                     *)
(***************************************************************************)
Abs(v) == IF v < 0 THEN -v ELSE v

RECURSIVE SumRange(_, _, _)
SumRange(s, lo, hi) ==
    IF lo > hi THEN 0
    ELSE IF lo = hi THEN s[lo]
    ELSE LET m == (lo + hi) \div 2
         IN SumRange(s, lo, m) + SumRange(s, m + 1, hi)

\* np.sum over a 1-d array
Sum(s) == SumRange(s, 1, Len(s))

\* sum of squares, the numerator of np.nanstd's variance
SumSq(s) == Sum([j \in 1..Len(s) |-> s[j] * s[j]])

\* n^2 * variance of s (population variance, as np.nanstd uses): n*Q - S^2
NVar(s) == Len(s) * SumSq(s) - Sum(s) * Sum(s)

\* l*l >= k*k*v for l >= 0, v >= 0, 1 <= k <= 4, without forming l*l when it
\* would leave the 32-bit range: l = k*a + b, l*l = k*k*a*a + 2*k*a*b + b*b
SqGe(l, k, v) ==
    LET a == l \div k
        b == l % k
    IN IF a >= 46341 THEN TRUE
       ELSE a * a + (2 * k * a * b + b * b) \div (k * k) >= v

\* l*l > k*k*v, as SqGe
SqGt(l, k, v) ==
    LET a == l \div k
        b == l % k
        whole == a * a + (2 * k * a * b + b * b) \div (k * k)
    IN IF a >= 46341 THEN TRUE
       ELSE whole > v \/ (whole = v /\ (2 * k * a * b + b * b) % (k * k) # 0)

(***************************************************************************)
(* rm_outliers (niriss.py:198-203).                                        *)
(***************************************************************************)
\* np.diff(arr)
Diff(a) == [j \in 1..(Len(a) - 1) |-> a[j + 1] - a[j]]

\* np.abs(d) >= np.nanmean(diff) + 3*np.nanstd(diff) for a diff of n entries
\* with sum sm and n^2*variance nv, multiplied through by n:
\* n*|d| - sm >= 3*sqrt(nv)
ReachesThreshold(d, n, sm, nv) ==
    LET lhs == n * Abs(d) - sm
    IN lhs >= 0 /\ SqGe(lhs, 3, nv)

\* the same comparison, strict
ExceedsThreshold(d, n, sm, nv) ==
    LET lhs == n * Abs(d) - sm
    IN lhs > 0 /\ SqGt(lhs, 3, nv)

GeThreshold(d, diff) == ReachesThreshold(d, Len(diff), Sum(diff), NVar(diff))

\* np.delete(arr, outliers): the flagged entries dropped instead of zeroed
rm_outliers_drop(a) ==
    LET diff == Diff(a)
        keep(j) == ~ (j < Len(a) /\ GeThreshold(diff[j], diff))
        F[j \in 0..Len(a)] ==
            IF j = 0 THEN << >>
            ELSE IF keep(j) THEN Append(F[j - 1], a[j]) ELSE F[j - 1]
    IN F[Len(a)]

\* np.where(...)[0]: the positions of diff that reach the threshold.  An
\* empty diff has a nan mean, and no comparison with nan holds.
outliers(a) ==
    LET diff == Diff(a)
        n == Len(diff)
        sm == Sum(diff)
        nv == n * SumSq(diff) - sm * sm
    IN {j \in 1..n : ReachesThreshold(diff[j], n, sm, nv)}

\* arr[outliers] = 0: position j of diff indexes position j of arr
rm_outliers(a) ==
    LET out == outliers(a)
    IN [j \in 1..Len(a) |-> IF j \in out THEN 0 ELSE a[j]]

(***************************************************************************)
(* Images.  A 2-d array of non-negative values is kept sparse: nrows,      *)
(* ncols, and px, a function from the (0-based) columns that hold a        *)
(* non-zero pixel to a function from the rows that are non-zero in that    *)
(* column to the value there.  Every other pixel is 0.                     *)
(***************************************************************************)
\* np.where(img[:, c] > t)[0], as a set of rows
RowsAbove(img, c, t) ==
    IF c \in DOMAIN img.px
    THEN {r \in DOMAIN img.px[c] : img.px[c][r] > t}
    ELSE {}

RECURSIVE SumSet(_)
SumSet(S) ==
    IF S = {} THEN 0
    ELSE LET x == CHOOSE y \in S : TRUE IN x + SumSet(S \ {x})

\* np.nanmean(inds) stored into an int array: the mean of the non-negative
\* row indices, truncated
MeanInt(S) == SumSet(S) \div Cardinality(S)

\* an image from a function giving each column's set of non-zero rows, every
\* non-zero pixel of value v
ImageOfRows(nr, nc, rows, v) ==
    [nrows |-> nr, ncols |-> nc,
     px |-> [c \in {d \in DOMAIN rows : rows[d] # {}} |-> [r \in rows[c] |-> v]]]

EmptyImage(nr, nc) == [nrows |-> nr, ncols |-> nc, px |-> << >>]

Min(S) == CHOOSE x \in S : \A y \in S : x <= y
Max(S) == CHOOSE x \in S : \A y \in S : x >= y

\* an image from boxes [r0, r1, c0, c1, v]: value v on rows r0..r1 of columns
\* c0..c1 (the largest v where boxes overlap), cut to the image's shape
BoxImage(nr, nc, boxes) ==
    LET at(c) == {b \in boxes : c \in b.c0..b.c1}
        cols == UNION {b.c0..b.c1 : b \in boxes} \cap (0..(nc - 1))
        rows(c) == UNION {b.r0..b.r1 : b \in at(c)} \cap (0..(nr - 1))
    IN [nrows |-> nr, ncols |-> nc,
        px |-> [c \in {d \in cols : rows(d) # {}} |->
                  [r \in rows(c) |->
                      Max({b.v : b \in {bb \in at(c) : r \in bb.r0..bb.r1}})]]]

\* a set of integers as the increasing array np.where returns
RECURSIVE SortedRows(_)
SortedRows(S) ==
    IF S = {} THEN << >>
    ELSE LET m == Min(S) IN <<m>> \o SortedRows(S \ {m})

(***************************************************************************)
(* f277_mask (niriss.py:145-165).  mask is the edge mask of the crop       *)
(* img[:150, :500]; shape is the shape of the uncropped image.             *)
(***************************************************************************)
CropRows == 150
CropCols == 500
AnchorLimit == 420

\* inds[1] and inds[-2] of a column with more than one True row
f277_lo(inds) == inds[2]
f277_hi(inds) == inds[Len(inds) - 1]

\* new_mask[inds[1]:inds[-2] + 1, i] = True: the end row included
f277_fill_closed(inds) ==
    IF Len(inds) > 1 THEN f277_lo(inds)..f277_hi(inds) ELSE {}

\* line 153, new_mask[inds[1]:inds[-2], i] = True: the rows of the slice,
\* which stops before inds[-2]
f277_fill(inds) ==
    IF Len(inds) > 1 THEN f277_lo(inds)..(f277_hi(inds) - 1) ELSE {}

\* line 154, mid[i] = [i, (inds[1]+inds[-2])/2] stored into an int array
f277_mid(i, inds) ==
    IF Len(inds) > 1
    THEN <<i, (f277_lo(inds) + f277_hi(inds)) \div 2>>
    ELSE <<0, 0>>

f277_new_mask(mask, nr, nc) ==
    LET fill(i) == f277_fill(SortedRows(RowsAbove(mask, i, 0)))
    IN [nrows |-> nr, ncols |-> nc,
        px |-> [i \in {c \in DOMAIN mask.px : fill(c) # {}} |->
                  [r \in fill(i) |-> 1]]]

f277_mid_all(mask) ==
    [k \in 1..mask.ncols |-> f277_mid(k - 1, SortedRows(RowsAbove(mask, k - 1, 0)))]

\* line 156 and mid[q]
f277_anchors(m) ==
    SelectSeq(m, LAMBDA a : a[1] < AnchorLimit /\ a[2] > 0 /\ a[1] > 0)

(***************************************************************************)
(* find_centers (niriss.py:205-218).                                       *)
(***************************************************************************)
\* lines 207-211: the running center of each column, 0 where no pixel is > 0
centers_raw(img) ==
    [i \in 1..img.ncols |->
        LET inds == RowsAbove(img, i - 1, 0)
        IN IF Cardinality(inds) > 0 THEN MeanInt(inds) ELSE 0]

\* centers[cutends + 1:] = 0
find_centers_after(img, cutends) ==
    LET centers == rm_outliers(centers_raw(img))
    IN IF cutends # None
       THEN [i \in 1..Len(centers) |-> IF i - 1 > cutends THEN 0 ELSE centers[i]]
       ELSE centers

\* lines 213-218: rm_outliers, then centers[cutends:] = 0
find_centers(img, cutends) ==
    LET centers == rm_outliers(centers_raw(img))
    IN IF cutends # None
       THEN [i \in 1..Len(centers) |-> IF i - 1 >= cutends THEN 0 ELSE centers[i]]
       ELSE centers

(***************************************************************************)
(* mask_method_one (niriss.py:220-283).                                    *)
(***************************************************************************)
CutEnds == 430          \* find_centers(f, cutends=430)
GThreshold == 100       \* g[:,i] > 100
Band1Max == 78          \* inds <= 78: the first order
Band2Min == 80          \* inds >= 80: the second order
SciStart == 800         \* x > 800
Sci2End == 1800         \* x < 1800

\* np.arange(0, n, 1)
arange(n) == [i \in 1..n |-> i - 1]

\* a[m > t] for arrays a and m of one length: the entries of a where the
\* entry of m is above t
WhereAbove(a, m, t) ==
    LET zip == [i \in 1..Len(a) |-> <<a[i], m[i]>>]
        sel == SelectSeq(zip, LAMBDA p : p[2] > t)
    IN [k \in 1..Len(sel) |-> sel[k][1]]

\* a[m > 0]
WherePositive(a, m) == WhereAbove(a, m, 0)

\* a[m != 0]
WhereNonZero(a, m) ==
    LET zip == [i \in 1..Len(a) |-> <<a[i], m[i]>>]
        sel == SelectSeq(zip, LAMBDA p : p[2] # 0)
    IN [k \in 1..Len(sel) |-> sel[k][1]]

\* a[lo < x < hi] for x = arange(len(a))
Between(a, lo, hi) ==
    LET zip == [i \in 1..Len(a) |-> <<a[i], i - 1>>]
        sel == SelectSeq(zip, LAMBDA p : p[2] > lo /\ p[2] < hi)
    IN [k \in 1..Len(sel) |-> sel[k][1]]

\* the point set of one np.polyfit call: the calibration part (x1, y1), the
\* science part (x2, y2), and x, y as appended.  np.polyfit raises on an
\* empty x (ok = FALSE) and returns coefficients otherwise.
PolyFit(px1, py1, px2, py2) ==
    [x1 |-> px1, y1 |-> py1, x2 |-> px2, y2 |-> py2,
     x |-> px1 \o px2, y |-> py1 \o py2,
     ok |-> Len(px1 \o px2) > 0]

\* clean_and_fit with the science points unfiltered
clean_and_fit_raw2(x1, x2, y1, y2) ==
    PolyFit(WherePositive(x1, y1), WherePositive(y1, y1), x2, y2)

\* lines 220-228
clean_and_fit(x1, x2, y1, y2) ==
    PolyFit(WherePositive(x1, y1), WherePositive(y1, y1),
            WherePositive(x2, y2), WherePositive(y2, y2))

\* lines 246-253: the center of each column's pixels > 100 within one band
band_raw(img, lo, hi) ==
    [i \in 1..img.ncols |->
        LET inds == {r \in RowsAbove(img, i - 1, GThreshold) : lo <= r /\ r <= hi}
        IN IF Cardinality(inds) >= 1 THEN MeanInt(inds) ELSE 0]

\* lines 243-255
gcenters_1_of(img) == rm_outliers(band_raw(img, 0, Band1Max))
\* lines 244-256
gcenters_2_of(img) == rm_outliers(band_raw(img, Band2Min, img.nrows - 1))

\* x[x>0] in place of x[x>800]
order1_window_wide(a) == Between(a, 0, Len(a))

\* a[x>800]
order1_window(a) == Between(a, SciStart, Len(a))
\* a[(x>800) & (x<1800)]
order2_window(a) == Between(a, SciStart, Sci2End)

\* fit(x) of the k-th fitted polynomial: one value per entry of x.  The
\* value itself (a least-squares polynomial's) is left uninterpreted.
poly1d(k, x) == [i \in 1..Len(x) |-> [fit |-> k, at |-> x[i]]]

\* the table built from the fitted columns only
table_one_fitted(x, fs) ==
    [x |-> fs[1].x, order_1 |-> poly1d(1, fs[1].x), order_2 |-> poly1d(2, fs[2].x)]

\* lines 275-278
table_one(x, fs) ==
    [x |-> x, order_1 |-> poly1d(1, x), order_2 |-> poly1d(2, x)]

(***************************************************************************)
(* mask_method_two (niriss.py:307-403).                                    *)
(***************************************************************************)
CalHeight == 100000     \* identify_peaks(summed_f277[:,i], height=100000, ...)
DoublePeaked0 == 500    \* double_peaked[0]
DoublePeaked1 == 700    \* double_peaked[1]
HeightLow == 2000       \* height for i < 500
HeightMid == 100        \* height for 500 <= i < 700
HeightHigh == 5000      \* height for i >= 700
EdgeCols900 == 900      \* if i < 900
EdgeRow40 == 40         \* p = p[p>40]
PeakSlots == 6          \* peaks = np.zeros((..., 6))
Boundaries == 4         \* for ind in range(4)
Trim == 5               \* good[5:-5]
Cutoff2 == 250          \* cutoff=250

\* find_peaks(column, height, distance): the rows of the column's local
\* maxima that reach height.  The frames drawn here hold their non-zero
\* pixels as isolated interior maxima at least `distance` rows apart, so
\* the distance rule removes none.
identify_peaks(img, i, height) == SortedRows(RowsAbove(img, i, height - 1))

\* lines 332-337
sci_height(i) ==
    IF i < DoublePeaked0 THEN HeightLow
    ELSE IF i >= DoublePeaked0 /\ i < DoublePeaked1 THEN HeightMid
    ELSE HeightHigh

\* lines 328-330, for every column: fp where exactly two peaks were found
f277_peaks_of(img) ==
    [k \in 1..img.ncols |->
        LET fp == identify_peaks(img, k - 1, CalHeight)
        IN IF Len(fp) = 2 THEN fp ELSE <<0, 0>>]

\* lines 339-343, for every column: peaks[i][:len(p)] = p
peaks_of(img) ==
    [k \in 1..img.ncols |->
        LET p0 == identify_peaks(img, k - 1, sci_height(k - 1))
            p == IF k - 1 < EdgeCols900
                 THEN SelectSeq(p0, LAMBDA r : r > EdgeRow40)
                 ELSE p0
        IN [sl \in 1..PeakSlots |-> IF sl <= Len(p) THEN p[sl] ELSE 0]]

\* a[:, k] of a 2-d array kept as a sequence of rows (k 0-based)
Column(a, k) == [i \in 1..Len(a) |-> a[i][k + 1]]

\* s[lo:hi] of a Python sequence for lo >= 0 and hi < 0
PySlice(s, lo, hi) == SubSeq(s, lo + 1, Len(s) + hi)

\* s[:hi] for hi >= 0
PyHead(s, hi) == SubSeq(s, 1, IF hi < Len(s) THEN hi ELSE Len(s))

\* the k-th smallest entry of s
KthSmallest(s, k) ==
    LET vals == {s[j] : j \in 1..Len(s)}
    IN Min({v \in vals : Cardinality({j \in 1..Len(s) : s[j] <= v}) >= k})

\* 2 * np.nanmedian(s) for a non-empty s
Median2(s) ==
    LET n == Len(s)
    IN IF n % 2 = 1 THEN 2 * KthSmallest(s, (n + 1) \div 2)
       ELSE KthSmallest(s, n \div 2) + KthSmallest(s, n \div 2 + 1)

\* line 360: np.where(np.abs(diff)<=np.nanmedian(diff)+2*np.nanstd(diff)),
\* a 1-tuple holding the array of (0-based) positions.  Multiplied through
\* by 2n: 2n|d| - n*2med <= 4*sqrt(n*Q - S^2).  An empty diff has a nan
\* median and yields no position.
good_where(diff) ==
    LET n == Len(diff)
        m2 == Median2(diff)
        sm == Sum(diff)
        nv == n * SumSq(diff) - sm * sm
        within(d) == LET l == 2 * n * Abs(d) - n * m2
                     IN l <= 0 \/ ~ SqGt(l, 4, nv)
    IN << SelectSeq([j \in 1..n |-> j - 1], LAMBDA j : within(diff[j + 1])) >>

\* a[t] for an index tuple t: the empty tuple selects the whole array, a
\* 1-tuple holding an index array selects those entries
IndexBy(a, t) ==
    IF Len(t) = 0 THEN a
    ELSE [k \in 1..Len(t[1]) |-> a[t[1][k] + 1]]

\* lines 366-369
cutoff_of(k) == IF k < 2 THEN -1 ELSE Cutoff2

\* a[:cutoff]
upto_cutoff(a, c) == IF c < 0 THEN PySlice(a, 0, c) ELSE PyHead(a, c)

\* lines 356-362: peaks[:,ind][q][good] and x[q][good] after good = good[5:-5]
science_points(pk, k) ==
    LET col == Column(pk, k)
        x == arange(Len(pk))
        pq == WherePositive(col, col)
        xq == WherePositive(x, col)
        good == PySlice(good_where(Diff(pq)), Trim, -Trim)
    IN [y |-> IndexBy(pq, good), x |-> IndexBy(xq, good)]

\* lines 363-375: the point set of boundary k, for a non-empty xf
boundary_fit(pk, fp, cols, k) ==
    LET sp == science_points(pk, k)
        last == cols[Len(cols)]
        y == WhereAbove(sp.y, sp.x, last)
        xs == WhereAbove(sp.x, sp.x, last)
        c == cutoff_of(k)
        side == IF k = 0 \/ k = 2 THEN 0 ELSE 1
    IN PolyFit(upto_cutoff(cols, c), upto_cutoff(Column(fp, side), c), xs, y)

\* np.nanmedian(avg[:, a:a+2], axis=1): one value per row, uninterpreted
median_pair(av, a) ==
    [i \in 1..Len(av[a]) |-> [median |-> <<av[a][i], av[a + 1][i]>>]]

\* lines 395-398
table_two(x, av) ==
    [x |-> x, order_1 |-> median_pair(av, 1), order_2 |-> median_pair(av, 3)]

(***************************************************************************)
(* The rm_outliers study: every center array up to the bounds, cleaned     *)
(* MaxPasses times in a row.                                               *)
(***************************************************************************)
SeqsUpTo(n, S) == UNION {[1..k -> S] : k \in 1..n}

IdleFc ==
    /\ fc_img = [nrows |-> 0, ncols |-> 0, px |-> << >>]
    /\ fc_cut = None
    /\ fc_raw = << >> /\ fc_clean = << >> /\ fc_out = << >>
    /\ fc_done = FALSE

IdleRm == arr = << >> /\ prev = << >> /\ passes = 0

\* the values of the tracing variables before anything is computed
BlankTr ==
    /\ new_mask = EmptyImage(0, 0) /\ mid = << >> /\ anchors = << >>
    /\ g_centers = << >> /\ f_centers = << >>
    /\ gcenters_1 = << >> /\ gcenters_2 = << >>
    /\ f277_peaks = << >> /\ xf = << >> /\ peaks = << >>
    /\ ind = 0 /\ avg = << >>
    /\ fits = << >> /\ tab = << >>

IdleTr ==
    /\ pc = "idle" /\ strategy = "-"
    /\ edge = EmptyImage(0, 0) /\ g = EmptyImage(0, 0)
    /\ sci = EmptyImage(0, 0) /\ cal = EmptyImage(0, 0)
    /\ BlankTr

InitRm ==
    /\ arr \in SeqsUpTo(MaxLen, 0..MaxCenter)
    /\ prev = arr
    /\ passes = 0
    /\ IdleFc /\ IdleTr

RmPass ==
    /\ passes < MaxPasses
    /\ Len(arr) > 0
    /\ prev' = arr
    /\ arr' = rm_outliers(arr)
    /\ passes' = passes + 1
    /\ UNCHANGED <<fcVars, trVars>>

NextRm == RmPass

SpecRm == InitRm /\ [][NextRm]_vars

(***************************************************************************)
(* The find_centers study: every boolean image up to the bounds, with and  *)
(* without a cutoff column.                                                *)
(***************************************************************************)
InitFc ==
    /\ IdleRm /\ IdleTr
    /\ \E nc \in 1..FcCols :
         \E rows \in [0..(nc - 1) -> SUBSET (0..(FcRows - 1))] :
            fc_img = ImageOfRows(FcRows, nc, rows, 1)
    /\ fc_cut \in {None} \cup (0..FcCols)
    /\ fc_raw = << >> /\ fc_clean = << >> /\ fc_out = << >>
    /\ fc_done = FALSE

FindCenters ==
    /\ ~ fc_done
    /\ fc_img.ncols > 0
    /\ fc_raw' = centers_raw(fc_img)
    /\ fc_clean' = rm_outliers(fc_raw')
    /\ fc_out' = find_centers(fc_img, fc_cut)
    /\ fc_done' = TRUE
    /\ UNCHANGED <<fc_img, fc_cut, rmVars, trVars>>

NextFc == FindCenters

SpecFc == InitFc /\ [][NextFc]_vars

(***************************************************************************)
(* The f277_mask study: edge masks of the crop with up to two columns      *)
(* that hold edges, at the columns where the anchor filter changes.        *)
(***************************************************************************)
EdgeCols == {0, 1, AnchorLimit - 1, AnchorLimit}

CropShapeRows == IF NRows < CropRows THEN NRows ELSE CropRows
CropShapeCols == IF NCols < CropCols THEN NCols ELSE CropCols

InitF277 ==
    /\ IdleRm /\ IdleFc /\ BlankTr
    /\ pc = "f277" /\ strategy = "A"
    /\ g = EmptyImage(NRows, NCols)
    /\ sci = EmptyImage(0, 0) /\ cal = EmptyImage(0, 0)
    /\ \E c1 \in EdgeCols, c2 \in EdgeCols :
         \E s1 \in SUBSET (0..(EdgeRows - 1)), s2 \in SUBSET (0..(EdgeRows - 1)) :
            /\ c1 < c2
            /\ edge = ImageOfRows(CropShapeRows, CropShapeCols,
                                   [c \in {c1, c2} |-> IF c = c1 THEN s1 ELSE s2], 1)

\* f277_mask, called by mask_method_one at line 238
F277Mask ==
    /\ pc = "f277"
    /\ new_mask' = f277_new_mask(edge, NRows, NCols)
    /\ mid' = f277_mid_all(edge)
    /\ anchors' = f277_anchors(mid')
    /\ pc' = "centers"
    /\ UNCHANGED <<strategy, inVars, aVars, bVars, fits, tab, rmVars, fcVars>>

NextF277 == F277Mask

SpecF277 == InitF277 /\ [][NextF277]_vars

(***************************************************************************)
(* Tracing.  The frames are NRows x NCols; what the external filters       *)
(* return for them (the edge mask of the F277W crop, the smoothed science  *)
(* image with its saturated pixels at 200) is drawn from boxes placed      *)
(* around the columns the code singles out.                                *)
(***************************************************************************)
Box(r0, r1, c0, c1, v) == [r0 |-> r0, r1 |-> r1, c0 |-> c0, c1 |-> c1, v |-> v]

\* four edge rows over a column range: the span between the inner two is
\* what f277_mask fills
EdgeRanges == {<<0, -1>>, <<100, 100>>, <<100, 101>>, <<415, 435>>}
EdgeBoxes(rg) == {Box(r, r, rg[1], rg[2], 1) : r \in {2, 4, 8, 10}}

Order1Ranges == {<<0, -1>>, <<300, NCols - 1>>, <<1000, 1001>>}
Order2Ranges == {<<0, -1>>, <<790, NCols - 1>>, <<1795, NCols - 1>>}

InitA ==
    /\ strategy = "A" /\ pc = "f277"
    /\ \E rg \in EdgeRanges :
         edge = BoxImage(CropShapeRows, CropShapeCols, EdgeBoxes(rg))
    /\ \E r1 \in Order1Ranges, r2 \in Order2Ranges, faint \in BOOLEAN :
         g = BoxImage(NRows, NCols,
                      {Box(50, 52, r1[1], r1[2], 200), Box(100, 104, r2[1], r2[2], 200)}
                      \cup (IF faint THEN {Box(0, 1, 0, 10, 3)} ELSE {}))
    /\ sci = EmptyImage(0, 0) /\ cal = EmptyImage(0, 0)

\* lines 240-241
Centers ==
    /\ pc = "centers" /\ strategy = "A"
    /\ g_centers' = find_centers(g, None)
    /\ f_centers' = find_centers(new_mask, CutEnds)
    /\ pc' = "bands"
    /\ UNCHANGED <<strategy, inVars, fVars, gcenters_1, gcenters_2, bVars, fits, tab,
                   rmVars, fcVars>>

\* lines 243-256
Bands ==
    /\ pc = "bands"
    /\ gcenters_1' = gcenters_1_of(g)
    /\ gcenters_2' = gcenters_2_of(g)
    /\ pc' = "fit1"
    /\ UNCHANGED <<strategy, inVars, fVars, g_centers, f_centers, bVars, fits, tab,
                   rmVars, fcVars>>

\* lines 257-260
FitOrder1 ==
    /\ pc = "fit1"
    /\ LET x == arange(Len(gcenters_1))
           fit1 == clean_and_fit(x, order1_window(x), f_centers, order1_window(gcenters_1))
       IN /\ fits' = Append(fits, fit1)
          /\ pc' = IF fit1.ok THEN "fit2" ELSE "error"
    /\ UNCHANGED <<strategy, inVars, fVars, aVars, bVars, tab, rmVars, fcVars>>

\* lines 261-262
FitOrder2 ==
    /\ pc = "fit2"
    /\ LET x == arange(Len(gcenters_1))
           fit2 == clean_and_fit(x, order2_window(x), f_centers, order2_window(gcenters_2))
       IN /\ fits' = Append(fits, fit2)
          /\ pc' = IF fit2.ok THEN "table1" ELSE "error"
    /\ UNCHANGED <<strategy, inVars, fVars, aVars, bVars, tab, rmVars, fcVars>>

\* lines 275-283
TableOne ==
    /\ pc = "table1"
    /\ tab' = table_one(arange(Len(gcenters_1)), fits)
    /\ pc' = "done"
    /\ UNCHANGED <<strategy, inVars, fVars, aVars, bVars, fits, rmVars, fcVars>>

\* the summed F277W frame: two strong peaks per column over a column range,
\* a third one from its fourth column on when `third`, and a weak peak in
\* every column
CalRanges == {<<0, -1>>, <<100, 100>>, <<100, 105>>, <<10, 270>>}
CalBoxes(rg, third) ==
    {Box(30, 30, rg[1], rg[2], 200000), Box(60, 60, rg[1], rg[2], 200000),
     Box(120, 120, 0, NCols - 1, 5000)}
    \cup (IF third THEN {Box(90, 90, rg[1] + 3, rg[2], 200000)} ELSE {})

\* the cleaned summed science frame: peak rows over column ranges
SciMenu ==
    { {},
      {Box(r, r, 0, NCols - 1, 6000) : r \in {50, 65, 110, 125}},
      {Box(50, 50, 1000, 1007, 6000)},
      {Box(35, 35, 880, 920, 6000), Box(50, 50, 880, 920, 6000)},
      {Box(50, 50, 0, NCols - 1, 150), Box(70, 70, 0, NCols - 1, 3000)} }

InitB ==
    /\ strategy = "B" /\ pc = "peaks"
    /\ \E rg \in CalRanges, third \in BOOLEAN :
         cal = BoxImage(NRows, NCols, CalBoxes(rg, third))
    /\ \E bs \in SciMenu : sci = BoxImage(NRows, NCols, bs)
    /\ edge = EmptyImage(0, 0) /\ g = EmptyImage(0, 0)

\* lines 320-343
Peaks ==
    /\ pc = "peaks"
    /\ f277_peaks' = f277_peaks_of(cal)
    /\ peaks' = peaks_of(sci)
    /\ pc' = "goodcal"
    /\ UNCHANGED <<strategy, inVars, fVars, aVars, xf, ind, avg, fits, tab,
                   rmVars, fcVars>>

\* lines 345-349
GoodCal ==
    /\ pc = "goodcal"
    /\ xf' = WhereNonZero(arange(cal.ncols), Column(f277_peaks, 0))
    /\ f277_peaks' = WhereNonZero(f277_peaks, Column(f277_peaks, 0))
    /\ pc' = "boundary"
    /\ UNCHANGED <<strategy, inVars, fVars, aVars, peaks, ind, avg, fits, tab,
                   rmVars, fcVars>>

\* lines 355-381, one pass of the loop.  xf[-1] raises on an empty xf.
FitBoundary ==
    /\ pc = "boundary"
    /\ ind < Boundaries
    /\ IF Len(xf) = 0
       THEN pc' = "error" /\ UNCHANGED <<fits, avg, ind>>
       ELSE LET fit == boundary_fit(peaks, f277_peaks, xf, ind)
            IN /\ fits' = Append(fits, fit)
               /\ IF fit.ok
                  THEN /\ avg' = Append(avg, poly1d(ind + 1, arange(sci.ncols)))
                       /\ ind' = ind + 1
                       /\ pc' = IF ind + 1 = Boundaries THEN "table2" ELSE "boundary"
                  ELSE pc' = "error" /\ UNCHANGED <<avg, ind>>
    /\ UNCHANGED <<strategy, inVars, fVars, aVars, f277_peaks, xf, peaks, tab,
                   rmVars, fcVars>>

\* lines 395-403
TableTwo ==
    /\ pc = "table2"
    /\ tab' = table_two(arange(sci.ncols), avg)
    /\ pc' = "done"
    /\ UNCHANGED <<strategy, inVars, fVars, aVars, bVars, fits, rmVars, fcVars>>

Init ==
    /\ IdleRm /\ IdleFc /\ BlankTr
    /\ (InitA \/ InitB)

Next ==
    \/ F277Mask
    \/ Centers
    \/ Bands
    \/ FitOrder1
    \/ FitOrder2
    \/ TableOne
    \/ Peaks
    \/ GoodCal
    \/ FitBoundary
    \/ TableTwo

Spec == Init /\ [][Next]_vars

\* position j of prev's first differences strictly exceeds mean + 3*stddev
FlaggedStrict(j) ==
    /\ j \in 1..(Len(prev) - 1)
    /\ LET diff == Diff(prev)
       IN ExceedsThreshold(diff[j], Len(diff), Sum(diff), NVar(diff))

\* C1 (as stated): a second pass of rm_outliers over a cleaned sequence
\* changes nothing: rm_outliers(rm_outliers(s)) = rm_outliers(s).
C1_Idempotent == passes >= 2 => arr = prev

\* C1 (amended): rm_outliers is not idempotent; a further pass keeps the
\* length of the sequence and leaves every entry as the pass before left
\* it, except the entries it resets to 0.
C1_SecondPassOnlyResets ==
    passes >= 2 =>
        /\ Len(arr) = Len(prev)
        /\ \A j \in 1..Len(prev) : arr[j] = prev[j] \/ arr[j] = 0

\* C1 witness: a second pass that did reset a further entry
C1_Witness == passes = 2 /\ arr # prev /\ Len(arr) = Len(prev)

\* C6: for a difference d_j = c[j+1] - c[j] that exceeds the threshold the
\* later value c[j+1] is reset to 0, and the earlier value c[j] is not
\* reset on account of d_j (it changes only when d_(j-1) exceeds the
\* threshold itself).
C6_LaterReset ==
    passes = 1 =>
        \A j \in 1..(Len(prev) - 1) :
            FlaggedStrict(j) =>
                /\ arr[j + 1] = 0
                /\ (arr[j] = prev[j] \/ FlaggedStrict(j - 1))

ConstantSeq(s) == \A j \in 1..Len(s) : s[j] = s[1]

\* C7: an entry is reset only for a difference strictly above
\* mean + 3*stddev, every other entry is unchanged; a sequence with no such
\* difference, for example a constant one, is returned unchanged.
C7_StrictOnly ==
    passes = 1 =>
        /\ \A j \in 1..Len(prev) : arr[j] # prev[j] => FlaggedStrict(j)
        /\ (ConstantSeq(prev) => arr = prev)

\* C9 (as stated): with a cutoff column c every center at an index > c is 0
\* and every center at an index <= c keeps its value from rm_outliers;
\* without a cutoff the cutoff step changes nothing.
C9_BeyondCutoff ==
    fc_done =>
        /\ Len(fc_out) = Len(fc_clean)
        /\ \A i \in 1..Len(fc_out) :
              fc_out[i] = IF fc_cut # None /\ i - 1 > fc_cut THEN 0 ELSE fc_clean[i]

\* C9 (amended): with a cutoff column c every center at an index >= c (the
\* cutoff column itself included) is 0 and every center at an index < c
\* keeps its value from rm_outliers; without a cutoff nothing changes.
C9_FromCutoff ==
    fc_done =>
        /\ Len(fc_out) = Len(fc_clean)
        /\ \A i \in 1..Len(fc_out) :
              fc_out[i] = IF fc_cut # None /\ i - 1 >= fc_cut THEN 0 ELSE fc_clean[i]

\* C9 witness: a cutoff at a column whose cleaned center is non-zero, with a
\* non-zero center kept below it
C9_Witness ==
    /\ fc_done /\ fc_cut # None
    /\ fc_cut >= 1 /\ fc_cut < Len(fc_out)
    /\ fc_clean[fc_cut + 1] # 0 /\ fc_out[fc_cut + 1] = 0
    /\ fc_out[fc_cut] # 0

\* the True rows of column i of the edge mask, increasing
EdgeInds(i) == SortedRows(RowsAbove(edge, i, 0))

\* C8 (as stated): a column of the edge mask with at least 2 True rows is
\* True in the reconstructed mask from the 2nd to the 2nd-to-last True row,
\* both included, and False elsewhere, and its anchor is (column, midpoint
\* of that span); a column with fewer than 2 True rows gets no filled row
\* and no anchor.
C8_ClosedSpan ==
    pc = "centers" =>
        \A i \in 0..(edge.ncols - 1) :
            LET inds == EdgeInds(i)
                k == Len(inds)
            IN IF k >= 2
               THEN /\ RowsAbove(new_mask, i, 0) = inds[2]..inds[k - 1]
                    /\ mid[i + 1] = <<i, (inds[2] + inds[k - 1]) \div 2>>
               ELSE /\ RowsAbove(new_mask, i, 0) = {}
                    /\ mid[i + 1] = <<0, 0>>

\* C8 (amended): a column with at least 2 True rows r_1 < ... < r_k is True
\* in the reconstructed mask at the rows r with r_2 <= r < r_(k-1) (the
\* 2nd-to-last True row itself is not filled; nothing is filled when
\* k <= 3) and False elsewhere, and the row recorded for it is
\* (column, floor((r_2 + r_(k-1)) / 2)); a column with fewer than 2 True
\* rows gets no filled row and the row (0, 0); the anchors returned are the
\* recorded rows with 0 < column < 420 and midpoint > 0, in column order.
C8_HalfOpenSpan ==
    pc = "centers" =>
        /\ Len(mid) = edge.ncols
        /\ \A i \in 0..(edge.ncols - 1) :
              LET inds == EdgeInds(i)
                  k == Len(inds)
              IN IF k >= 2
                 THEN /\ RowsAbove(new_mask, i, 0)
                           = {r \in 0..(NRows - 1) : inds[2] <= r /\ r < inds[k - 1]}
                      /\ mid[i + 1] = <<i, (inds[2] + inds[k - 1]) \div 2>>
                 ELSE /\ RowsAbove(new_mask, i, 0) = {}
                      /\ mid[i + 1] = <<0, 0>>
        /\ \A i \in 0..(edge.ncols - 1) :
              (\E j \in 1..Len(anchors) : anchors[j][1] = i)
                  <=> (i > 0 /\ i < 420 /\ mid[i + 1][1] = i /\ mid[i + 1][2] > 0)
        /\ \A j \in 1..Len(anchors) :
              /\ anchors[j] = mid[anchors[j][1] + 1]
              /\ j > 1 => anchors[j - 1][1] < anchors[j][1]

\* C8 witness: a column with 5 True rows, filled short of the 2nd-to-last
\* one, whose anchor is returned, beside a column with a single True row
C8_Witness ==
    /\ pc = "centers"
    /\ Len(EdgeInds(1)) = 5
    /\ RowsAbove(new_mask, 1, 0) = {EdgeInds(1)[2], EdgeInds(1)[3]}
    /\ <<1, EdgeInds(1)[3]>> = anchors[1]
    /\ Len(EdgeInds(AnchorLimit)) = 1

\* the column count of the science frame
SciWidth == IF strategy = "A" THEN g.ncols ELSE sci.ncols

\* C2: no point handed to np.polyfit has the sentinel 0 as its row: in
\* mask_method_one every y is > 0, in mask_method_two every entry of ytot
\* is non-zero.
C2_NoSentinelInFit ==
    \A k \in 1..Len(fits) :
        /\ Len(fits[k].y) = Len(fits[k].x)
        /\ \A j \in 1..Len(fits[k].y) :
              /\ fits[k].y[j] # 0
              /\ strategy = "A" => fits[k].y[j] > 0

\* C2 witness: mask_method_one has fitted calibration and science points
\* out of center arrays that both hold the sentinel
C2_Witness ==
    /\ strategy = "A" /\ pc = "done"
    /\ Len(fits[1].x1) > 0 /\ Len(fits[1].x2) > 0
    /\ \E i \in 1..CutEnds : f_centers[i] = 0
    /\ \E i \in (SciStart + 2)..Len(gcenters_1) : gcenters_1[i] = 0

\* the calibration points found: centers of the F277W mask that survive
\* find_centers (A), columns with exactly two F277W peaks (B)
CalPoints ==
    IF strategy = "A"
    THEN Cardinality({i \in 1..Len(f_centers) : f_centers[i] > 0})
    ELSE Len(xf)

\* C3: with fewer than 2 calibration points tracing ends in an error and
\* returns no table, and no polynomial is fitted to a point set that holds
\* fewer than 2 calibration points.
C3_FewAnchorsFail ==
    /\ pc = "done" => CalPoints >= 2
    /\ \A k \in 1..Len(fits) : fits[k].ok => Len(fits[k].x1) >= 2

\* C4: a returned table has one row per column of the science frame: x is
\* 0, 1, ..., W-1 and order_1 and order_2 have W entries each.
C4_OneRowPerColumn ==
    pc = "done" =>
        /\ tab.x = [i \in 1..SciWidth |-> i - 1]
        /\ Len(tab.order_1) = SciWidth
        /\ Len(tab.order_2) = SciWidth

\* C4 witness: a table returned although the fits used fewer points than
\* the frame has columns
C4_Witness ==
    /\ pc = "done" /\ strategy = "A"
    /\ Len(tab.x) = NCols
    /\ Len(fits[1].x) > 0 /\ Len(fits[1].x) < NCols
    /\ Len(fits[2].x) > 0 /\ Len(fits[2].x) < NCols

\* C5: in every fit each science point lies at a column beyond every
\* calibration point: calibration columns < 430 and science columns > 800
\* in mask_method_one, science columns > xf[-1] in mask_method_two.
C5_ScienceBeyondCalibration ==
    \A k \in 1..Len(fits) :
        LET f == fits[k]
            edgecol == IF strategy = "A" THEN CutEnds - 1 ELSE xf[Len(xf)]
        IN /\ \A i \in 1..Len(f.x1) : f.x1[i] <= edgecol
           /\ \A j \in 1..Len(f.x2) : f.x2[j] > edgecol
           /\ strategy = "A" => \A j \in 1..Len(f.x2) : f.x2[j] > SciStart

\* C5 witness: mask_method_two has fitted a boundary from calibration and
\* science points
C5_Witness ==
    /\ strategy = "B" /\ pc = "done"
    /\ Len(fits[3].x1) > 1 /\ Len(fits[3].x2) > 1
    /\ \E i \in 1..Len(peaks) : i - 1 <= xf[Len(xf)] /\ peaks[i][3] > 0

\* the columns the trimmed selection would keep for boundary k (0-based):
\* the non-zero peaks whose difference is within median + 2*stddev, less
\* the first and the last 5 of them
TrimmedColumns(k) ==
    LET col == Column(peaks, k)
        pq == WherePositive(col, col)
        xq == WherePositive(arange(Len(peaks)), col)
        gidx == PySlice(good_where(Diff(pq))[1], Trim, -Trim)
    IN {xq[gidx[t] + 1] : t \in 1..Len(gidx)}

NonZeroPeaks(k) == Cardinality({i \in 1..Len(peaks) : peaks[i][k + 1] > 0})

\* C10: the science points of a mask_method_two fit leave out the peaks
\* beyond median + 2*stddev and the first and last 5 of the rest, so they
\* number at most the non-zero peaks of the boundary less 10.
C10_TrimmedSciencePoints ==
    strategy = "B" =>
        \A k \in 1..Len(fits) :
            /\ \A j \in 1..Len(fits[k].x2) : fits[k].x2[j] \in TrimmedColumns(k - 1)
            /\ Len(fits[k].x2) <= NonZeroPeaks(k - 1) - 2 * Trim

\* C11: the calibration points of a mask_method_two fit are, for the
\* boundaries of order 1 (ind 0 and 1), every calibration column found, the
\* last one included, and for the boundaries of order 2 (ind 2 and 3) exactly
\* the calibration columns below 250; ind 0 and 2 take the first peak row of
\* each such column, ind 1 and 3 the second.
C11_CalibrationPoints ==
    strategy = "B" =>
        \A k \in 1..Len(fits) :
            LET side == IF k = 1 \/ k = 3 THEN 0 ELSE 1
                keep == [i \in 1..Len(xf) |->
                            IF k <= 2 \/ xf[i] < Cutoff2 THEN 1 ELSE 0]
            IN /\ fits[k].x1 = WherePositive(xf, keep)
               /\ fits[k].y1 = WherePositive(Column(f277_peaks, side), keep)

\* the rows of column i (0-based) of img above t that lie in the band lo..hi
BandRows(img, i, t, lo, hi) == {r \in RowsAbove(img, i, t) : lo <= r /\ r <= hi}

\* C12: before outlier removal a per-column center is 0 if and only if the
\* column has no qualifying pixel: for find_centers no pixel > 0, for
\* gcenters_1 / gcenters_2 no pixel > 100 within the band.  A column that
\* holds such a pixel never yields the sentinel 0.
C12_SentinelUnambiguous ==
    /\ fc_done =>
          \A i \in 1..fc_img.ncols :
              fc_raw[i] = 0 <=> RowsAbove(fc_img, i - 1, 0) = {}
    /\ (strategy = "A" /\ pc \in {"fit1", "fit2", "table1", "done"}) =>
          LET b1 == band_raw(g, 0, Band1Max)
              b2 == band_raw(g, Band2Min, g.nrows - 1)
          IN \A i \in 1..g.ncols :
                /\ b1[i] = 0 <=> BandRows(g, i - 1, GThreshold, 0, Band1Max) = {}
                /\ b2[i] = 0 <=>
                      BandRows(g, i - 1, GThreshold, Band2Min, g.nrows - 1) = {}

====
